---- MODULE Spec2Model ----
(***************************************************************************)
(* A model of the resumable geocoding pipeline of freefoodfinder:          *)
(*   scripts/batch_geocode.py          BatchGeocoder and its main          *)
(*   scripts/geocode_little_pantries.py  geocode_location                  *)
(* The batch run is a state machine over the position of main (pc), the    *)
(* geocoder object's lists, and the files it reads and writes.  A process  *)
(* can be interrupted (KeyboardInterrupt), hit an I/O error, or be killed; *)
(* a new process can then be started against the same files.               *)
(***************************************************************************)
EXTENDS Integers, Sequences, FiniteSets, TLC

\* ------------------------------------------------------------------ bounds
MaxLocs == 2        \* longest input file
MaxRuns == 2        \* processes started one after the other on the same files

\* ------------------------------------------------------- program constants
SaveEvery == 10     \* batch_geocode.py:145  "if i % 10 == 0"
RetryCount == 3     \* geocode_little_pantries.py:29  retry_count: int = 3

\* -------------------------------------------------------------- input data
\* An input record, reduced to the fields that decide where the run puts it:
\* the optional 'id' and whether 'coordinates' is already set.  Its street
\* address, which only geocode_address reads, is drawn when that is called.
IdValues == {1}
RecordShapes ==
  {[has_id |-> h, id |-> d, coordinates |-> c] :
     h \in BOOLEAN, d \in IdValues \cup {0}, c \in BOOLEAN}
InputRecords == {r \in RecordShapes : r.has_id <=> r.id \in IdValues}
ShortFiles == UNION {[1..n -> InputRecords] : n \in 1..MaxLocs}
\* A file long enough for the save of line 145: SaveEvery records without
\* id, all but the last with coordinates.
LongFile ==
  [k \in 1..SaveEvery |->
     [has_id |-> FALSE, id |-> 0, coordinates |-> (k < SaveEvery)]]
InputFiles == ShortFiles \cup {LongFile}
BatchSizes == {2}

\* What one HTTP request to the geocoding service can come back with:
\*   hit        status 200, a list whose first element has lat and lon
\*   empty      status 200, an empty list
\*   non200     any other status code
\*   exc        requests.get raises (timeout, connection error)
\*   malformed  status 200, a body that is not JSON or an element without
\*              usable lat/lon
Resp == {"hit", "empty", "non200", "exc", "malformed"}

VARIABLES
  locations,      \* content of the input file
  batch_size,     \* argv[3] of main, passed to geocode_batch
  progress_file,  \* <output>.progress.json on disk
  output_file,    \* the output file on disk
  failed_file,    \* <output>-failed.json on disk
  geocoded,       \* self.geocoded
  failed,         \* self.failed
  to_process,     \* local of geocode_batch
  i,              \* loop counter of geocode_batch (1-based)
  pc,             \* position of the process in main
  ret,            \* where save_progress returns to
  run,            \* number of the running process
  abort,          \* why the try block of main was left, and where
  prev,           \* how the process before this one ended
  start_file,     \* progress_file as the running process found it
  unwaited,       \* requests sent since the last sleep of this process
  last,           \* the geocode_address call of the item being processed
  fn, arg, out,   \* resolver check: function applied, its input, its result
  all_locations,  \* server/data/all-locations.json
  fa_file,        \* server/data/feeding-america-locations.json
  osm_file,       \* server/data/osm-locations.json
  pantry_file,    \* server/data/little-pantry-geocoded_3941.json
  before,         \* all-locations.json as the last merge script found it
  op,             \* the last merge script run and how it ended
  ops,            \* number of merge scripts run so far
  pantry_total,       \* geocode_little_pantries: number of loaded locations
  pantry_batch_size,  \* batch_size of its geocode_batch
  pantry_geocoded,    \* geocoded of its geocode_batch
  pantry_failed,      \* failed of its geocode_batch
  pantry_i,           \* loop counter of its geocode_batch
  pantry_count,       \* count of the running save_progress
  pantry_pc,          \* position of the process in its main
  pantry_saved        \* little-pantry-geocoded_<n>.json and -failed_<n>.json

batchVars == <<locations, batch_size, progress_file, output_file, failed_file,
               geocoded, failed, to_process, i, pc, ret, run, abort, prev,
               start_file, unwaited, last>>
resolverVars == <<fn, arg, out>>
mergeVars == <<all_locations, fa_file, osm_file, pantry_file, before, op, ops>>
pantryVars == <<pantry_total, pantry_batch_size, pantry_geocoded,
                pantry_failed, pantry_i, pantry_count, pantry_pc, pantry_saved>>
otherVars == <<resolverVars, mergeVars, pantryVars>>
vars == <<batchVars, otherVars>>

\* ------------------------------------------------------------------ files
NoFile == [status |-> "absent", geocoded |-> <<>>, failed |-> <<>>]
Truncated == [status |-> "truncated", geocoded |-> <<>>, failed |-> <<>>]
\* a dump of the geocoded list alone
CheckpointWithoutFailed(g, f) ==
  [status |-> "complete", geocoded |-> g, failed |-> <<>>]
Checkpoint(g, f) == [status |-> "complete", geocoded |-> g, failed |-> f]

\* ------------------------------------------------------- geocode_address
\* the try block without "if address" at line 67: the fallback query is
\* sent whenever the primary query gave no result
geocode_address_try_no_address_test(address, primary, fallback) ==
  IF primary \in {"exc", "malformed"}
  THEN [result |-> "raise", requests |-> 1]
  ELSE IF primary = "hit"
  THEN [result |-> "coords", requests |-> 1]
  ELSE IF fallback \in {"exc", "malformed"}
  THEN [result |-> "raise", requests |-> 2]
  ELSE IF fallback = "hit"
  THEN [result |-> "coords", requests |-> 2]
  ELSE [result |-> "None", requests |-> 2]

\* The body of the try block: the requests it sends and what it returns or
\* raises, given what the service answers to the primary and to the fallback
\* query.  address is TRUE for a non-empty street address.
geocode_address_try(address, primary, fallback) ==
  IF primary = "exc"
  THEN [result |-> "raise", requests |-> 1]
  ELSE IF primary = "malformed"
  THEN [result |-> "raise", requests |-> 1]
  ELSE IF primary = "hit"
  THEN [result |-> "coords", requests |-> 1]
  ELSE IF address
  THEN IF fallback \in {"exc", "malformed"}
       THEN [result |-> "raise", requests |-> 2]
       ELSE IF fallback = "hit"
       THEN [result |-> "coords", requests |-> 2]
       ELSE [result |-> "None", requests |-> 2]
  ELSE [result |-> "None", requests |-> 1]

\* the function without its except clause: what the try block raises leaves it
geocode_address_noexcept(address, primary, fallback) ==
  geocode_address_try(address, primary, fallback)

\* try: ... except Exception: return None
geocode_address(address, primary, fallback) ==
  LET r == geocode_address_try(address, primary, fallback) IN
  IF r.result = "raise" THEN [r EXCEPT !.result = "None"] ELSE r


\* ---------------------------------------------------------- geocode_batch
\* loc.get('id', i): the record's id or, without one, its 0-based position.
\* pos is the 1-based position in the file.
LocId(rec, pos) == IF rec.has_id THEN rec.id ELSE pos - 1

\* The dict of an input record once geocode_batch has set 'original_id' on it.
\* idx names the input record the dict came from (its name and other fields).
Pending(rec, pos) ==
  [idx |-> pos, has_id |-> rec.has_id, id |-> rec.id,
   has_original_id |-> TRUE, original_id |-> LocId(rec, pos),
   coordinates |-> rec.coordinates]

Range(s) == {s[k] : k \in 1..Len(s)}

\* processed_ids, lines 96-102: failed entries are ignored
ProcessedIdsGeocodedOnly(g, f) ==
  {e.original_id : e \in {x \in Range(g) : x.has_original_id}}

\* processed_ids, lines 96-102
ProcessedIds(g, f) ==
  {e.original_id : e \in {x \in Range(g) \cup Range(f) : x.has_original_id}}

RECURSIVE Remaining(_, _, _)
\* to_process, lines 105-110
Remaining(locs, pos, processed_ids) ==
  IF pos > Len(locs) THEN <<>>
  ELSE IF LocId(locs[pos], pos) \in processed_ids
       THEN Remaining(locs, pos + 1, processed_ids)
       ELSE <<Pending(locs[pos], pos)>> \o Remaining(locs, pos + 1, processed_ids)

\* Which of the calls of main a position belongs to: line 210 or line 211,
\* or one of the handlers.
Call(p) == IF p = "save_results" THEN "save_results"
           ELSE IF p \in {"except", "save_open", "save_dump"} /\ ret = "exit"
           THEN "handler"
           ELSE "geocode_batch"

\* No merge script is run in the checks of the batch run and the resolvers.
NoFileYet == [exists |-> FALSE, records |-> <<>>]
NoOp == [name |-> "none", result |-> "none", added |-> 0, duplicates |-> 0]
MergeOff ==
  /\ all_locations = NoFileYet
  /\ fa_file = <<>>
  /\ osm_file = <<>>
  /\ pantry_file = <<>>
  /\ before = NoFileYet
  /\ op = NoOp
  /\ ops = 0

\* The pantry geocoder is not run in the other checks.
PantryOff ==
  /\ pantry_total = 0
  /\ pantry_batch_size = 0
  /\ pantry_geocoded = <<>>
  /\ pantry_failed = <<>>
  /\ pantry_i = 1
  /\ pantry_count = 0
  /\ pantry_pc = "off"
  /\ pantry_saved = <<>>

NoAbort == [cause |-> "none", at |-> "none"]
NoCall == [idx |-> 0, address |-> FALSE, primary |-> "none", fallback |-> "none",
           result |-> "none", requests |-> 0]

Init ==
  /\ locations \in InputFiles
  /\ batch_size \in BatchSizes
  /\ progress_file = NoFile
  /\ output_file = [status |-> "absent", records |-> <<>>]
  /\ failed_file = [status |-> "absent", records |-> <<>>]
  /\ geocoded = <<>>
  /\ failed = <<>>
  /\ to_process = <<>>
  /\ i = 1
  /\ pc = "main"
  /\ ret = "none"
  /\ run = 1
  /\ abort = NoAbort
  /\ prev = [how |-> "none", cause |-> "none", at |-> "none"]
  /\ start_file = NoFile
  /\ unwaited = 0
  /\ last = NoCall
  /\ fn = "none" /\ arg = <<>> /\ out = <<>>
  /\ MergeOff
  /\ PantryOff

\* An exception raised at position p of the try block of main reaches
\* "except Exception" (lines 219-222).
Raise(cause, p) ==
  /\ pc' = "except"
  /\ abort' = [cause |-> cause, at |-> Call(p)]

\* lines 87-88: open and json.load of the input file; either can raise
ReadInput ==
  /\ pc = "main"
  /\ \/ /\ pc' = "load_progress"
        /\ UNCHANGED abort
     \/ Raise("input", pc)
  /\ UNCHANGED <<locations, batch_size, progress_file, output_file, failed_file,
                 geocoded, failed, to_process, i, ret, run, prev, start_file,
                 unwaited, last, otherVars>>

\* load_progress, lines 22-29, called at line 93.  json.load raises on a
\* file that holds no complete JSON document; open can raise on any file.
LoadProgress ==
  /\ pc = "load_progress"
  /\ \/ /\ progress_file.status = "absent"
        /\ pc' = "partition"
        /\ UNCHANGED <<geocoded, failed, abort>>
     \/ /\ progress_file.status = "complete"
        /\ geocoded' = progress_file.geocoded
        /\ failed' = progress_file.failed
        /\ pc' = "partition"
        /\ UNCHANGED abort
     \/ /\ progress_file.status # "absent"
        /\ Raise("progress", pc)
        /\ UNCHANGED <<geocoded, failed>>
  /\ UNCHANGED <<locations, batch_size, progress_file, output_file, failed_file,
                 to_process, i, ret, run, prev, start_file, unwaited, last,
                 otherVars>>

\* lines 95-116: processed_ids, to_process, the early return
Partition ==
  /\ pc = "partition"
  /\ to_process' = Remaining(locations, 1, ProcessedIds(geocoded, failed))
  /\ i' = 1
  /\ pc' = IF to_process' = <<>> THEN "save_results" ELSE "loop"
  /\ UNCHANGED <<locations, batch_size, progress_file, output_file, failed_file,
                 geocoded, failed, ret, run, abort, prev, start_file, unwaited, last, otherVars>>

\* no check of line 123: every pending record goes to geocode_address
HasCoordinatesNever(location) == FALSE

\* line 123: if location.get('coordinates')
HasCoordinates(location) == location.coordinates

\* One pass of the loop body, lines 119-147, up to the sleep.
ProcessItem ==
  /\ pc = "loop"
  /\ i <= Len(to_process)
  /\ LET location == to_process[i] IN
     \/ /\ HasCoordinates(location)                      \* lines 123-126
        /\ geocoded' = Append(geocoded, location)
        /\ i' = i + 1
        /\ pc' = IF i + 1 > Len(to_process) THEN "save_open" ELSE "loop"
        /\ ret' = IF i + 1 > Len(to_process) THEN "save_results" ELSE ret
        /\ UNCHANGED <<failed, unwaited, last, abort>>
     \/ /\ ~HasCoordinates(location)                     \* lines 129-147
        /\ \E address \in BOOLEAN, primary \in Resp, fallback \in Resp :
             LET r == geocode_address(address, primary, fallback) IN
             /\ unwaited' = unwaited + r.requests
             /\ last' = [idx |-> location.idx, address |-> address,
                         primary |-> primary,
                         fallback |-> IF r.requests = 2 THEN fallback ELSE "none",
                         result |-> r.result, requests |-> r.requests]
             /\ IF r.result = "raise"
                THEN /\ Raise("geocode", pc)
                     /\ UNCHANGED <<geocoded, failed, ret>>
                ELSE /\ IF r.result = "coords"
                        THEN /\ geocoded' = Append(geocoded,
                                              [location EXCEPT !.coordinates = TRUE])
                             /\ UNCHANGED failed
                        ELSE /\ failed' = Append(failed, location)
                             /\ UNCHANGED geocoded
                     /\ IF i % SaveEvery = 0
                        THEN pc' = "save_open" /\ ret' = "sleep"
                        ELSE pc' = "sleep" /\ UNCHANGED ret
                     /\ UNCHANGED abort
        /\ UNCHANGED i
  /\ UNCHANGED <<locations, batch_size, progress_file, output_file, failed_file,
                 to_process, run, prev, start_file, otherVars>>

\* line 150, then the loop's next step or, after the last item, line 153
Sleep ==
  /\ pc = "sleep"
  /\ unwaited' = 0
  /\ last' = NoCall
  /\ i' = i + 1
  /\ pc' = IF i + 1 > Len(to_process) THEN "save_open" ELSE "loop"
  /\ ret' = IF i + 1 > Len(to_process) THEN "save_results" ELSE ret
  /\ UNCHANGED <<locations, batch_size, progress_file, output_file, failed_file,
                 geocoded, failed, to_process, run, abort, prev, start_file,
                 otherVars>>

\* save_progress, line 33: open(..., 'w') empties the file
SaveOpen ==
  /\ pc = "save_open"
  /\ progress_file' = Truncated
  /\ pc' = "save_dump"
  /\ UNCHANGED <<locations, batch_size, output_file, failed_file, geocoded,
                 failed, to_process, i, ret, run, abort, prev, start_file,
                 unwaited, last, otherVars>>

\* save_progress, lines 34-37: json.dump and close
SaveDump ==
  /\ pc = "save_dump"
  /\ progress_file' = Checkpoint(geocoded, failed)
  /\ pc' = ret
  /\ UNCHANGED <<locations, batch_size, output_file, failed_file, geocoded,
                 failed, to_process, i, ret, run, abort, prev, start_file,
                 unwaited, last, otherVars>>

RECURSIVE Renumber(_, _)
\* save_results, lines 165-169: loc['id'] = i; del loc['original_id']
Renumber(g, k) ==
  IF k > Len(g) THEN <<>>
  ELSE <<[g[k] EXCEPT !.has_id = TRUE, !.id = k,
                      !.has_original_id = FALSE, !.original_id = 0]>>
       \o Renumber(g, k + 1)

\* save_results, lines 162-181; writing the output file can raise
SaveResults ==
  /\ pc = "save_results"
  /\ geocoded' = Renumber(geocoded, 1)
  /\ \/ /\ output_file' = [status |-> "complete", records |-> geocoded']
        /\ failed_file' = IF failed # <<>>
                          THEN [status |-> "complete", records |-> failed]
                          ELSE failed_file
        /\ pc' = "done"
        /\ UNCHANGED abort
     \/ /\ Raise("output", pc)
        /\ UNCHANGED <<output_file, failed_file>>
  /\ UNCHANGED <<locations, batch_size, progress_file, failed, to_process, i,
                 ret, run, prev, start_file, unwaited, last,
                 otherVars>>

\* The positions inside the try block of main, lines 209-213.
InTry == pc \in {"main", "load_progress", "partition", "loop", "sleep",
                 "save_results"}
         \/ (pc \in {"save_open", "save_dump"} /\ ret # "exit")

\* Ctrl-C while the try block runs: "except KeyboardInterrupt", lines 215-218
Interrupt ==
  /\ InTry
  /\ pc' = "except"
  /\ abort' = [cause |-> "interrupt", at |-> Call(pc)]
  /\ unwaited' = 0
  /\ last' = NoCall
  /\ UNCHANGED <<locations, batch_size, progress_file, output_file, failed_file,
                 geocoded, failed, to_process, i, ret, run, prev, start_file,
                 otherVars>>

\* only the KeyboardInterrupt handler saves; "except Exception" just reports
ExceptNoSave ==
  /\ pc = "except"
  /\ pc' = IF abort.cause = "interrupt" THEN "save_open" ELSE "exit"
  /\ ret' = "exit"
  /\ UNCHANGED <<locations, batch_size, progress_file, output_file, failed_file,
                 geocoded, failed, to_process, i, run, abort, prev, start_file,
                 unwaited, last, otherVars>>

\* both handlers, lines 215-222: geocoder.save_progress()
Except ==
  /\ pc = "except"
  /\ pc' = "save_open"
  /\ ret' = "exit"
  /\ UNCHANGED <<locations, batch_size, progress_file, output_file, failed_file,
                 geocoded, failed, to_process, i, run, abort, prev, start_file,
                 unwaited, last, otherVars>>

\* The process is killed (or the machine stops): no handler runs, and what
\* the process held in memory is gone.
Crash ==
  /\ pc \notin {"done", "exit", "dead"}
  /\ pc' = "dead"
  /\ abort' = [cause |-> "killed", at |-> Call(pc)]
  /\ geocoded' = <<>>
  /\ failed' = <<>>
  /\ to_process' = <<>>
  /\ i' = 1
  /\ ret' = "none"
  /\ unwaited' = 0
  /\ last' = NoCall
  /\ UNCHANGED <<locations, batch_size, progress_file, output_file, failed_file,
                 run, prev, start_file, otherVars>>

\* The operator runs the same command again: main, lines 193-207, builds a
\* new BatchGeocoder (lines 15-20) on the same files.
Restart ==
  /\ pc \in {"done", "exit", "dead"}
  /\ run < MaxRuns
  /\ run' = run + 1
  /\ prev' = [how |-> pc, cause |-> abort.cause, at |-> abort.at]
  /\ geocoded' = <<>>
  /\ failed' = <<>>
  /\ to_process' = <<>>
  /\ i' = 1
  /\ pc' = "main"
  /\ ret' = "none"
  /\ abort' = NoAbort
  /\ start_file' = progress_file
  /\ unwaited' = 0
  /\ last' = NoCall
  /\ UNCHANGED <<locations, batch_size, progress_file, output_file, failed_file,
                 otherVars>>

Next ==
  \/ ReadInput \/ LoadProgress \/ Partition \/ ProcessItem \/ Sleep
  \/ SaveOpen \/ SaveDump \/ SaveResults \/ Interrupt \/ Except \/ Crash
  \/ Restart

Spec == Init /\ [][Next]_vars


\* -------------------------------------- definitions used by the properties

\* The source ids the entries of a list carry.
Ids(list) == {e.original_id : e \in {x \in Range(list) : x.has_original_id}}

\* The source ids a progress file records, as geocoded or as failed.
RecordedIds(file) ==
  IF file.status = "complete"
  THEN Ids(file.geocoded) \cup Ids(file.failed)
  ELSE {}

\* How often input record pos appears in a list.
Count(list, pos) == Cardinality({k \in 1..Len(list) : list[k].idx = pos})

RECURSIVE RunLoop(_, _, _, _, _)
\* The loop of geocode_batch, lines 119-142, run to its end over the pending
\* list when geocode_address answers answer[idx] for input record idx.
RunLoop(pending, k, answer, g, f) ==
  IF k > Len(pending) THEN [geocoded |-> g, failed |-> f]
  ELSE LET location == pending[k] IN
       IF location.coordinates
       THEN RunLoop(pending, k + 1, answer, Append(g, location), f)
       ELSE IF answer[location.idx] = "coords"
       THEN RunLoop(pending, k + 1, answer,
                    Append(g, [location EXCEPT !.coordinates = TRUE]), f)
       ELSE RunLoop(pending, k + 1, answer, g, Append(f, location))

\* One uninterrupted run over the input, with no progress file to start from.
Uninterrupted(answer) ==
  RunLoop(Remaining(locations, 1, {}), 1, answer, <<>>, <<>>)

\* An answer per input record that agrees with what this and the earlier
\* process got from the service.
Observed(answer) ==
  /\ \A e \in Range(geocoded) :
       ~locations[e.idx].coordinates => answer[e.idx] = "coords"
  /\ \A e \in Range(failed) : answer[e.idx] = "None"

\* geocode_batch has returned normally in the first process, or in a second
\* one started after the first was interrupted inside geocode_batch and its
\* handler had saved the progress.
FirstRun == run = 1 /\ pc = "save_results"
Resumed ==
  /\ run = 2
  /\ prev = [how |-> "exit", cause |-> "interrupt", at |-> "geocode_batch"]
  /\ pc = "save_results"

\* C1 (idempotent resume): a run interrupted inside geocode_batch, flushed
\* by main and run again ends with the same geocoded and failed source ids
\* as one uninterrupted run, for every service that answers the same way
\* for the same record.
IdempotentResume ==
  Resumed =>
    \A answer \in [1..Len(locations) -> {"coords", "None"}] :
      Observed(answer) =>
        /\ Ids(geocoded) = Ids(Uninterrupted(answer).geocoded)
        /\ Ids(failed) = Ids(Uninterrupted(answer).failed)

\* C2 (no double-counting): geocode_address is never invoked for an input
\* record whose source id the progress file recorded when the process
\* started.
NoDoubleCounting ==
  last.idx # 0 =>
    LocId(locations[last.idx], last.idx) \notin RecordedIds(start_file)

\* a resumed process, with ids recorded, that geocodes a record
NoDoubleCountingWitness ==
  /\ run = 2
  /\ RecordedIds(start_file) # {}
  /\ \E e \in Range(start_file.failed) : e.has_original_id
  /\ last.idx # 0

\* C3 (interruption flush): when the process exits after an interrupt or an
\* error in the try block, the progress file has been written and holds
\* every record of geocoded and of failed.
InterruptionFlush ==
  pc = "exit" => progress_file = Checkpoint(geocoded, failed)

\* interrupted with records in memory that no save had written yet
InterruptionFlushWitness ==
  /\ pc = "exit"
  /\ abort.cause = "interrupt"
  /\ Len(geocoded) + Len(failed) > 0
  /\ start_file.status = "absent"

\* C4 (atomic checkpoint save): the progress file on disk is at every
\* moment a complete checkpoint (or not there yet), never an empty or
\* partly written one.
AtomicCheckpointSave == progress_file.status # "truncated"

\* C5 (rate floor): no two requests are sent without a sleep between them.
RateFloor == unwaited <= 1

\* The items of the pending list the loop has gone through.
Processed == IF pc = "sleep" THEN i ELSE i - 1

\* C6 (checkpoint cadence): after every batch_size-th item of the pending
\* list, of whatever kind, the progress file holds all that was processed.
CheckpointCadence ==
  (pc \in {"loop", "sleep"} /\ Processed > 0 /\ Processed % batch_size = 0)
    => progress_file = Checkpoint(geocoded, failed)

\* C7 (complete partition): when geocode_batch returns normally, in one run
\* or in a run resumed after an interrupt, every input record is exactly
\* once in geocoded or failed.
CompletePartition ==
  (FirstRun \/ Resumed) =>
    \A pos \in 1..Len(locations) :
      Count(geocoded, pos) + Count(failed, pos) = 1

\* C8 (fatal errors preserve progress): when the process exits after an
\* error, the progress file records every source id it recorded when the
\* process started.
FatalErrorsPreserveProgress ==
  (pc = "exit" /\ abort.cause \in {"input", "progress", "output"})
    => RecordedIds(start_file) \subseteq RecordedIds(progress_file)

\* A request of the item being processed failed: timeout or connection
\* error, non-200 status, malformed body.
Failures == {"exc", "non200", "malformed"}
RequestFailed == last.idx # 0 /\ (last.primary \in Failures \/ last.fallback \in Failures)
LastAppendedTo(list) == list # <<>> /\ list[Len(list)].idx = last.idx
\* The loop is on its way to the next pending record: at the save of line
\* 146 or at the sleep of line 150.
LoopGoesOn ==
  pc = "sleep" \/ (pc \in {"save_open", "save_dump"} /\ ret = "sleep")

TransientRetriedInBatch ==
  (last.idx # 0 /\ last.primary = "exc" /\ LastAppendedTo(failed))
    => last.requests = RetryCount

\* The loop body completes for the pending record at position i: the step
\* is neither an interrupt nor a kill.
ItemDone == pc = "loop" /\ i <= Len(to_process) /\ pc' \notin {"except", "dead"}

\* C12 (already-enriched records are not re-geocoded): the loop appends a
\* pending record that carries coordinates to geocoded as it is, calls
\* geocode_address for no such record and sends no request for it.
NotRegeocoded ==
  [][(ItemDone /\ to_process[i].coordinates) =>
       /\ geocoded' = Append(geocoded, to_process[i])
       /\ failed' = failed
       /\ unwaited' = unwaited
       /\ last' = last /\ last.idx = 0]_vars

\* the first process has put an input record with coordinates in geocoded
\* and is at the next record, with no request sent
NotRegeocodedWitness ==
  /\ run = 1 /\ pc = "loop" /\ i = 2
  /\ Len(geocoded) = 1 /\ locations[geocoded[1].idx].coordinates
  /\ geocoded[1].coordinates
  /\ unwaited = 0 /\ last = NoCall

\* C19 (no source id in persisted output): no record of the output file or
\* of the failed-records file carries 'original_id'.
NoSourceIdPersisted ==
  \A rec \in Range(output_file.records) \cup Range(failed_file.records) :
    ~rec.has_original_id

\* C25 (failure reason retained): every entry of failed, in memory and in
\* the progress file, has an 'error' field.
FailureReasonRetained ==
  \A e \in Range(failed) \cup Range(progress_file.failed) : "error" \in DOMAIN e

\* save_progress has returned: the step is the dump, not a kill.
SaveReturns == pc = "save_dump" /\ pc' = ret
\* load_progress has read a progress file.
LoadReturns ==
  pc = "load_progress" /\ pc' = "partition" /\ progress_file.status # "absent"

EveryEntryRecognisable ==
  progress_file.status = "complete" =>
    \A e \in Range(progress_file.geocoded) \cup Range(progress_file.failed) :
      e.has_original_id /\ e.original_id = LocId(locations[e.idx], e.idx)


\* ------------------------------------------------------------ the resolvers
\* geocode_location of geocode_little_pantries.py.  What one attempt's
\* request can come back with:
\*   hit         a 2xx answer, a list whose first element has lat and lon
\*   empty       a 2xx answer, an empty list
\*   timeout     requests.exceptions.Timeout
\*   exc         another exception of requests.get (connection error)
\*   http_error  a 4xx or 5xx answer: raise_for_status raises HTTPError
\*   malformed   a 2xx answer whose body is not JSON or whose first element
\*               lacks a usable lat or lon
AttemptResp == {"hit", "empty", "timeout", "exc", "http_error", "malformed"}

\* an empty result list raises like the other failures, so it is retried
attempt_try_empty_raises(r) ==
  IF r = "timeout" THEN "raise_timeout"
  ELSE IF r \in {"exc", "http_error", "malformed", "empty"} THEN "raise_exception"
  ELSE "return_found"

\* lines 63-83: the try block of one attempt
attempt_try(r) ==
  IF r = "timeout" THEN "raise_timeout"
  ELSE IF r \in {"exc", "http_error", "malformed"} THEN "raise_exception"
  ELSE IF r = "hit" THEN "return_found"
  ELSE "return_no_results"

Returned(success, error, requests, sleeps) ==
  [result |-> "dict", success |-> success, error |-> error,
   requests |-> requests, sleeps |-> sleeps]

RECURSIVE geocode_location_loop_offbyone(_, _, _, _, _)
\* the loop with "if attempt < retry_count" in its handlers: the last
\* failed attempt continues too, and the loop runs out
geocode_location_loop_offbyone(attempt, retry_count, resps, requests, sleeps) ==
  IF attempt >= retry_count
  THEN [result |-> "None", success |-> FALSE, error |-> "",
        requests |-> requests, sleeps |-> sleeps]
  ELSE LET t == attempt_try(resps[attempt + 1]) IN
       IF t = "return_found"
       THEN Returned(TRUE, "", requests + 1, sleeps)
       ELSE IF t = "return_no_results"
       THEN Returned(FALSE, "No results found", requests + 1, sleeps)
       ELSE geocode_location_loop_offbyone(attempt + 1, retry_count, resps,
                                           requests + 1, sleeps + 1)

RECURSIVE geocode_location_loop(_, _, _, _, _)
\* lines 62-94: for attempt in range(retry_count).  resps[k] is the answer
\* to the k-th request.  A loop that runs out returns None.
geocode_location_loop(attempt, retry_count, resps, requests, sleeps) ==
  IF attempt >= retry_count
  THEN [result |-> "None", success |-> FALSE, error |-> "",
        requests |-> requests, sleeps |-> sleeps]
  ELSE LET t == attempt_try(resps[attempt + 1]) IN
       IF t = "return_found"
       THEN Returned(TRUE, "", requests + 1, sleeps)
       ELSE IF t = "return_no_results"
       THEN Returned(FALSE, "No results found", requests + 1, sleeps)
       ELSE IF attempt < retry_count - 1
       THEN geocode_location_loop(attempt + 1, retry_count, resps,
                                  requests + 1, sleeps + 1)
       ELSE IF t = "raise_timeout"
       THEN Returned(FALSE, "Timeout after retries", requests + 1, sleeps)
       ELSE Returned(FALSE, "str(e)", requests + 1, sleeps)

\* geocode_location(name) with its default retry_count
geocode_location(resps) == geocode_location_loop(0, RetryCount, resps, 0, 0)

\* The batch run is not started in the resolver check.
BatchOff ==
  /\ locations = <<>>
  /\ batch_size = 0
  /\ progress_file = NoFile
  /\ output_file = [status |-> "absent", records |-> <<>>]
  /\ failed_file = [status |-> "absent", records |-> <<>>]
  /\ geocoded = <<>>
  /\ failed = <<>>
  /\ to_process = <<>>
  /\ i = 1
  /\ pc = "off"
  /\ ret = "none"
  /\ run = 0
  /\ abort = NoAbort
  /\ prev = [how |-> "none", cause |-> "none", at |-> "none"]
  /\ start_file = NoFile
  /\ unwaited = 0
  /\ last = NoCall

\* The inputs: for geocode_address whether the street address is non-empty
\* and the answers to its two queries, for geocode_location the answers to
\* its RetryCount requests.
InitResolver ==
  /\ BatchOff
  /\ MergeOff
  /\ PantryOff
  /\ \/ /\ fn = "geocode_address"
        /\ arg \in {[address |-> a, primary |-> p, fallback |-> f] :
                      a \in BOOLEAN, p \in Resp, f \in Resp}
     \/ /\ fn = "geocode_location"
        /\ arg \in [1..RetryCount -> AttemptResp]
  /\ out = [result |-> "pending"]

ApplyGeocodeAddress ==
  /\ fn = "geocode_address"
  /\ out.result = "pending"
  /\ out' = geocode_address(arg.address, arg.primary, arg.fallback)
  /\ UNCHANGED <<fn, arg, batchVars, mergeVars, pantryVars>>

ApplyGeocodeLocation ==
  /\ fn = "geocode_location"
  /\ out.result = "pending"
  /\ out' = geocode_location(arg)
  /\ UNCHANGED <<fn, arg, batchVars, mergeVars, pantryVars>>

NextResolver == ApplyGeocodeAddress \/ ApplyGeocodeLocation

SpecResolver == InitResolver /\ [][NextResolver]_vars

\* C10 (two-outcome resolver): whatever the service does, geocode_address
\* returns coordinates or None and geocode_location returns a dict with a
\* boolean 'success'; no exception leaves either.
TwoOutcomeResolver ==
  out.result # "pending" =>
    /\ fn = "geocode_address" => out.result \in {"coords", "None"}
    /\ fn = "geocode_location" => out.result = "dict" /\ out.success \in BOOLEAN

\* geocode_address after a malformed answer to its fallback query, and
\* geocode_location after three failed attempts
TwoOutcomeResolverWitness ==
  \/ /\ fn = "geocode_address"
     /\ arg.address /\ arg.primary = "empty" /\ arg.fallback = "malformed"
     /\ out.result = "None"
  \/ /\ fn = "geocode_location"
     /\ arg = [k \in 1..RetryCount |-> "malformed"]
     /\ out.result = "dict" /\ ~out.success

AddressDone == fn = "geocode_address" /\ out.result # "pending"

\* C23 (empty street address skips the fallback): geocode_address with an
\* empty address sends the primary request only and returns that query's
\* first result or None.
EmptyAddressSkipsFallback ==
  (AddressDone /\ ~arg.address) =>
    /\ out.requests = 1
    /\ out.result = IF arg.primary = "hit" THEN "coords" ELSE "None"

\* no street address, no result for the primary query, a city that the
\* fallback query would have found
EmptyAddressSkipsFallbackWitness ==
  /\ AddressDone
  /\ ~arg.address /\ arg.primary = "empty" /\ arg.fallback = "hit"
  /\ out.requests = 1 /\ out.result = "None"

\* C24 (fallback on zero results only): geocode_address sends the fallback
\* query exactly when the primary query returned an empty list and the
\* street address is not empty; a result of the fallback query is returned.
FallbackOnZeroResultsOnly ==
  AddressDone =>
    /\ out.requests = 2 <=> (arg.primary = "empty" /\ arg.address)
    /\ (out.requests = 2 /\ arg.fallback = "hit") => out.result = "coords"


\* The answers after which an attempt of geocode_location ends in one of
\* its except clauses.
FailedAttempts == {"timeout", "exc", "http_error", "malformed"}
LocationDone == fn = "geocode_location" /\ out.result # "pending"

\* C21 (bounded retry with backoff): geocode_location sends at most
\* RetryCount requests, each but the first after a failed attempt, sleeps
\* once between two attempts and not after the last, and returns a failure
\* when all attempts failed.
BoundedRetry ==
  LocationDone =>
    /\ out.requests \in 1..RetryCount
    /\ \A k \in 1..(out.requests - 1) : arg[k] \in FailedAttempts
    /\ out.sleeps = out.requests - 1
    /\ (\A k \in 1..RetryCount : arg[k] \in FailedAttempts)
         => out.result = "dict" /\ ~out.success /\ out.requests = RetryCount

\* three timeouts: three requests, two sleeps, a failure
BoundedRetryWitness ==
  /\ LocationDone
  /\ arg = [k \in 1..RetryCount |-> "timeout"]
  /\ out.requests = RetryCount /\ out.sleeps = RetryCount - 1
  /\ ~out.success /\ out.error = "Timeout after retries"

\* C22 (no-match is not retried): an empty result list, at the first
\* attempt or after failed ones, makes geocode_location return
\* 'No results found' with no further request.
NoMatchNotRetried ==
  LocationDone =>
    \A k \in 1..RetryCount :
      (arg[k] = "empty" /\ \A j \in 1..(k - 1) : arg[j] \in FailedAttempts)
        => /\ out.result = "dict" /\ ~out.success
           /\ out.error = "No results found"
           /\ out.requests = k

\* an empty list at the first attempt, where a second request would have
\* found the place
NoMatchNotRetriedWitness ==
  /\ LocationDone
  /\ arg[1] = "empty" /\ arg[2] = "hit"
  /\ out.requests = 1 /\ out.sleeps = 0
  /\ out.error = "No results found"


\* ------------------------------------------------------- the merge scripts
\* collect_all_data.merge_all_data, merge_pantries.merge_locations and
\* merge_locations.main, run one after the other on the files of
\* server/data.
MaxRecs == 3        \* records in the data files, all files together
MaxOps == 2         \* merge scripts run one after the other

\* A coordinate is a number of 0.00001 degrees.  'coordinates' is a dict
\* with lat and lng ("dict"), not a key of the record ("absent") or null
\* ("null").
Denver == [kind |-> "dict", lat |-> 3978000, lng |-> -10486970]
DenverNear == [kind |-> "dict", lat |-> 3978001, lng |-> -10486969]
Boulder == [kind |-> "dict", lat |-> 4000000, lng |-> -10500000]
Equator == [kind |-> "dict", lat |-> 0, lng |-> -10500000]
EquatorNear == [kind |-> "dict", lat |-> 1, lng |-> -10500000]
Points == {Denver, DenverNear, Boulder, Equator, EquatorNear}
NoCoordinates == {[kind |-> k, lat |-> 0, lng |-> 0] : k \in {"absent", "null"}}
CoordinateShapes == Points \cup NoCoordinates

\* A record of a data file: src and pos stand for its name and its other
\* fields, id is <<"n", k>> for the number k, <<"fa", k>> for the string
\* 'fa-k' that a scraper assigned, <<"none", 0>> for no id.
Rec(src, pos, id, coordinates) ==
  [src |-> src, pos |-> pos, id |-> id, coordinates |-> coordinates]

\* A canonical dataset: ids 1..n
Canonical(n) ==
  {[k \in 1..n |-> Rec("existing", k, <<"n", k>>, c[k])] :
     c \in [1..n -> CoordinateShapes]}
\* The file a scraper wrote: ids '<src>-1', '<src>-2', ...
Scraped(src, n, shapes) ==
  {[k \in 1..n |-> Rec(src, k, <<src, k>>, c[k])] : c \in [1..n -> shapes]}

\* A geocoded pantry file: each record with the id of its scraper or
\* without 'id'.
PantryPoints == {Denver, Boulder}
PantryFiles(n) ==
  {[k \in 1..n |->
      Rec("little-pantry", k,
          IF h[k] THEN <<"little-pantry", k>> ELSE <<"none", 0>>, c[k])] :
     h \in [1..n -> BOOLEAN], c \in [1..n -> PantryPoints]}

InitMerge ==
  /\ BatchOff
  /\ PantryOff
  /\ fn = "none" /\ arg = <<>> /\ out = <<>>
  /\ \E a \in 0..MaxRecs : \E b \in 0..(MaxRecs - a) :
     \E c \in 0..(MaxRecs - a - b) : \E d \in 0..(MaxRecs - a - b - c) :
       /\ all_locations \in
            {[exists |-> e, records |-> r] :
               e \in {x \in BOOLEAN : a > 0 => x}, r \in Canonical(a)}
       /\ fa_file \in Scraped("fa", b, CoordinateShapes)
       /\ osm_file \in Scraped("osm", c, CoordinateShapes)
       /\ pantry_file \in PantryFiles(d)
  /\ before = NoFileYet
  /\ op = NoOp
  /\ ops = 0

\* round(x, 4), in units of 0.0001 degree.  No value used here ends in
\* the digit 5: a decimal with that digit is no binary float, and round
\* goes by the float.
Round4(x) == IF x % 10 >= 5 THEN (x \div 10) + 1 ELSE x \div 10

\* coord_key, lines 80 and 108
CoordKey(loc) == <<Round4(loc.coordinates.lat), Round4(loc.coordinates.lng)>>

\* coords = loc.get('coordinates', {}); coords.get('lat') raises
\* AttributeError when the value of 'coordinates' is null
GetRaises(loc) == loc.coordinates.kind = "null"

\* "lat and lng" of lines 78 and 104: None and the number 0 are falsy
LatAndLng(loc) ==
  loc.coordinates.kind = "dict" /\ loc.coordinates.lat # 0 /\ loc.coordinates.lng # 0

\* lines 74-81: the keys of the existing records
SeenOfExisting(existing) ==
  {CoordKey(loc) : loc \in {x \in Range(existing) : LatAndLng(x)}}

RECURSIVE Deduplicate(_, _, _, _, _)
\* lines 96-116, from record k of source_data on: the records added to
\* new_locations, the keys seen and the duplicates counted at the end
Deduplicate(source_data, k, seen_coords, new_locations, duplicates) ==
  IF k > Len(source_data)
  THEN [seen_coords |-> seen_coords, new_locations |-> new_locations,
        duplicates |-> duplicates]
  ELSE LET loc == source_data[k] IN
       IF ~LatAndLng(loc)
       THEN Deduplicate(source_data, k + 1, seen_coords, new_locations, duplicates)
       ELSE IF CoordKey(loc) \in seen_coords
       THEN Deduplicate(source_data, k + 1, seen_coords, new_locations,
                        duplicates + 1)
       ELSE Deduplicate(source_data, k + 1, seen_coords \cup {CoordKey(loc)},
                        Append(new_locations, loc), duplicates)

\* lines 125-126 without the assignment: every record keeps its id
RegenerateIdsNot(locs) == locs

\* lines 125-126: loc['id'] = i for i = 1, 2, ...
RegenerateIds(locs) == [k \in 1..Len(locs) |-> [locs[k] EXCEPT !.id = <<"n", k>>]]

\* merge_all_data, lines 55-130.  A source file that is not there counts
\* as an empty one (lines 87-89).  An exception leaves before line 129.
MergeAllData ==
  /\ ops < MaxOps
  /\ LET existing == all_locations.records
         fa == Deduplicate(fa_file, 1, SeenOfExisting(existing), <<>>, 0)
         osm == Deduplicate(osm_file, 1, fa.seen_coords, fa.new_locations, 0)
     IN IF \E loc \in Range(existing) \cup Range(fa_file) \cup Range(osm_file) :
             GetRaises(loc)
        THEN /\ op' = [name |-> "merge_all_data", result |-> "raised",
                       added |-> 0, duplicates |-> 0]
             /\ UNCHANGED all_locations
        ELSE /\ op' = [name |-> "merge_all_data", result |-> "written",
                       added |-> Len(osm.new_locations),
                       duplicates |-> fa.duplicates + osm.duplicates]
             /\ all_locations' =
                  [exists |-> TRUE,
                   records |-> RegenerateIds(existing \o osm.new_locations)]
  /\ before' = all_locations
  /\ ops' = ops + 1
  /\ UNCHANGED <<fa_file, osm_file, pantry_file, batchVars, resolverVars,
                 pantryVars>>

\* merge_pantries.py line 34: the truthy ids of all_locations
ExistingIds(locs) == {loc.id : loc \in {x \in Range(locs) : x.id[1] # "none"}}

RECURSIVE MergePantryLoop(_, _, _, _)
\* merge_pantries.py lines 40-47, from pantry k on: all_locations at the end
MergePantryLoop(pantry_locations, k, locs, existing_ids) ==
  IF k > Len(pantry_locations) THEN locs
  ELSE LET pantry == pantry_locations[k] IN
       IF pantry.id \in existing_ids
       THEN MergePantryLoop(pantry_locations, k + 1, locs, existing_ids)
       ELSE MergePantryLoop(pantry_locations, k + 1, Append(locs, pantry),
                            existing_ids \cup {pantry.id})

\* merge_pantries.merge_locations, lines 14-63
MergePantries ==
  /\ ops < MaxOps
  /\ LET merged == MergePantryLoop(pantry_file, 1, all_locations.records,
                                   ExistingIds(all_locations.records))
         new_count == Len(merged) - Len(all_locations.records)
         duplicate_count == Len(pantry_file) - new_count
     IN IF ~all_locations.exists                       \* open raises, line 19
        THEN /\ op' = [name |-> "merge_pantries", result |-> "raised",
                       added |-> 0, duplicates |-> 0]
             /\ UNCHANGED all_locations
        ELSE IF new_count = 0                           \* lines 29-31, 62-63
        THEN /\ op' = [name |-> "merge_pantries", result |-> "unchanged",
                       added |-> 0, duplicates |-> duplicate_count]
             /\ UNCHANGED all_locations
        ELSE /\ op' = [name |-> "merge_pantries", result |-> "written",
                       added |-> new_count, duplicates |-> duplicate_count]
             /\ all_locations' = [exists |-> TRUE, records |-> merged]
  /\ before' = all_locations
  /\ ops' = ops + 1
  /\ UNCHANGED <<fa_file, osm_file, pantry_file, batchVars, resolverVars,
                 pantryVars>>

\* merge_locations.main, lines 15-30
MergeLocationsMain ==
  /\ ops < MaxOps
  /\ IF ~all_locations.exists                          \* open raises, line 8
     THEN /\ op' = [name |-> "merge_locations", result |-> "raised",
                    added |-> 0, duplicates |-> 0]
          /\ UNCHANGED all_locations
     ELSE /\ op' = [name |-> "merge_locations", result |-> "written",
                    added |-> Len(osm_file), duplicates |-> 0]
          /\ all_locations' =
               [exists |-> TRUE, records |-> all_locations.records \o osm_file]
  /\ before' = all_locations
  /\ ops' = ops + 1
  /\ UNCHANGED <<fa_file, osm_file, pantry_file, batchVars, resolverVars,
                 pantryVars>>

NextMerge == MergeAllData \/ MergePantries \/ MergeLocationsMain

SpecMerge == InitMerge /\ [][NextMerge]_vars

\* ------------------------------- definitions used by the merge properties
\* merge_all_data has just written all-locations.json
Merged == op.name = "merge_all_data" /\ op.result = "written"

\* The record has coordinates: a dict with a lat and a lng.
WithCoordinates(loc) == loc.coordinates.kind = "dict"

\* The records merge_all_data went through, in the order it did: existing,
\* then Feeding America, then OpenStreetMap.
Existing == before.records
Incoming == fa_file \o osm_file
Processed3 == Existing \o Incoming
Output == all_locations.records

\* Two dicts that differ in 'id' at most.
SameButId(a, b) ==
  a.src = b.src /\ a.pos = b.pos /\ a.coordinates = b.coordinates

\* C13 (dedup grid uniqueness): after merge_all_data no two output records
\* with coordinates have the same key (round(lat, 4), round(lng, 4)).
DedupGridUniqueness ==
  Merged =>
    \A j, k \in 1..Len(Output) :
      (j # k /\ WithCoordinates(Output[j]) /\ WithCoordinates(Output[k]))
        => CoordKey(Output[j]) # CoordKey(Output[k])

\* C14 (no false merges): an incoming record with coordinates whose key is
\* the key of no existing record and of no incoming record processed
\* before it is in the output of merge_all_data.
NoFalseMerges ==
  Merged =>
    \A k \in 1..Len(Incoming) :
      (/\ WithCoordinates(Incoming[k])
       /\ \A e \in Range(Existing) :
            WithCoordinates(e) => CoordKey(e) # CoordKey(Incoming[k])
       /\ \A j \in 1..(k - 1) :
            WithCoordinates(Incoming[j]) => CoordKey(Incoming[j]) # CoordKey(Incoming[k]))
        => \E o \in Range(Output) : SameButId(o, Incoming[k])

\* C15 (coordinate-less records pass through): merge_all_data does not fail,
\* and every incoming record without coordinates is in its output.
CoordinateLessPassThrough ==
  op.name = "merge_all_data" =>
    /\ op.result = "written"
    /\ \A k \in 1..Len(Incoming) :
         ~WithCoordinates(Incoming[k])
           => \E o \in Range(Output) : SameButId(o, Incoming[k])

\* The place of a retained incoming record in the order of processing.
SourceOrder(loc) == IF loc.src = "fa" THEN loc.pos ELSE Len(fa_file) + loc.pos

\* C16 (dense id reassignment): after merge_all_data the k-th output record
\* has id k; the output is the existing records, in their order, followed
\* by incoming records in the order of their sources.
DenseIdReassignment ==
  Merged =>
    /\ \A k \in 1..Len(Output) : Output[k].id = <<"n", k>>
    /\ Len(Output) >= Len(Existing)
    /\ \A k \in 1..Len(Existing) : SameButId(Output[k], Existing[k])
    /\ \A k \in (Len(Existing) + 1)..Len(Output) :
         /\ Output[k].src \in {"fa", "osm"}
         /\ SourceOrder(Output[k]) \in 1..Len(Incoming)
         /\ SameButId(Output[k], Incoming[SourceOrder(Output[k])])
         /\ \A j \in (Len(Existing) + 1)..(k - 1) :
              SourceOrder(Output[j]) < SourceOrder(Output[k])

\* merge_all_data found a dataset holding a scraper's string id and a
\* repeated id, and added an incoming record to it
DenseIdReassignmentWitness ==
  /\ Merged
  /\ \E k \in 1..Len(Existing) : Existing[k].id[1] = "osm"
  /\ Len(Output) > Len(Existing)
  /\ Output[Len(Output)].src = "fa"

\* The cells of the records that were processed.
Cells == {CoordKey(loc) : loc \in {x \in Range(Processed3) : WithCoordinates(x)}}
InCell(list, cell) ==
  {k \in 1..Len(list) : WithCoordinates(list[k]) /\ CoordKey(list[k]) = cell}
Min(S) == CHOOSE x \in S : \A y \in S : x <= y

\* C17 (earlier source wins): where several processed records fall in one
\* cell and merge_all_data keeps a single record for it, that record is the
\* one processed first, fields other than 'id' unchanged.
EarlierSourceWins ==
  Merged =>
    \A cell \in Cells :
      (Cardinality(InCell(Processed3, cell)) > 1
         /\ Cardinality(InCell(Output, cell)) = 1)
        => SameButId(Output[Min(InCell(Output, cell))],
                     Processed3[Min(InCell(Processed3, cell))])

\* C18 (canonical ids stay unique and dense): whatever merge scripts have
\* run, the ids of the N records of all-locations.json are pairwise
\* distinct and are exactly 1..N.
CanonicalIdsDense ==
  all_locations.exists =>
    /\ \A j, k \in 1..Len(Output) : j # k => Output[j].id # Output[k].id
    /\ {Output[k].id : k \in 1..Len(Output)} = {<<"n", k>> : k \in 1..Len(Output)}


\* ------------------------------------------------- the pantry geocoder run
\* geocode_little_pantries.py: main, geocode_batch and save_progress.  The
\* process has no handler for Ctrl-C and reads no progress file.
MaxPantries == 4    \* loaded locations
PantryBatchSizes == {2, 3}

AbsentFile == [status |-> "absent", records |-> <<>>]
\* The two files save_progress writes for one count.
NothingSaved == [geocoded_file |-> AbsentFile, failed_file |-> AbsentFile]

InitPantry ==
  /\ BatchOff
  /\ MergeOff
  /\ fn = "none" /\ arg = <<>> /\ out = <<>>
  /\ pantry_total \in 1..MaxPantries
  /\ pantry_batch_size \in PantryBatchSizes
  /\ pantry_geocoded = <<>>
  /\ pantry_failed = <<>>
  /\ pantry_i = 1
  /\ pantry_count = 0
  /\ pantry_pc = "loop"
  /\ pantry_saved = [n \in 1..MaxPantries |-> NothingSaved]

\* line 139, with the interval of batch_geocode.py in place of batch_size
SaveDueEveryTen(k, size) == k % SaveEvery = 0

\* line 139: if i % batch_size == 0
SaveDue(k, size) == k % size = 0

\* line 115 for a location without 'name': location['name'] raises
\* KeyError, which nothing catches, and the process ends.
PantryKeyError ==
  /\ pantry_pc = "loop"
  /\ pantry_i <= pantry_total
  /\ pantry_pc' = "key_error"
  /\ UNCHANGED <<pantry_total, pantry_batch_size, pantry_geocoded, pantry_failed,
                 pantry_i, pantry_count, pantry_saved, batchVars, resolverVars,
                 mergeVars>>

\* lines 114-142 for a location with a 'name': one location up to the save
\* or the sleep.  The answers to the requests of geocode_location are resps.
PantryItem ==
  /\ pantry_pc = "loop"
  /\ pantry_i <= pantry_total
  /\ \E resps \in [1..RetryCount -> AttemptResp] :
       LET result == geocode_location(resps) IN
       IF result.success
       THEN /\ pantry_geocoded' = Append(pantry_geocoded, pantry_i)
            /\ UNCHANGED pantry_failed
       ELSE /\ pantry_failed' =
                 Append(pantry_failed, [name |-> pantry_i, error |-> result.error])
            /\ UNCHANGED pantry_geocoded
  /\ IF SaveDue(pantry_i, pantry_batch_size)
     THEN pantry_pc' = "open_geocoded" /\ pantry_count' = pantry_i
     ELSE pantry_pc' = "sleep" /\ UNCHANGED pantry_count
  /\ UNCHANGED <<pantry_total, pantry_batch_size, pantry_i, pantry_saved,
                 batchVars, resolverVars, mergeVars>>

\* save_progress, line 160: open(geocoded_file, 'w') creates or empties it
PantryOpenGeocoded ==
  /\ pantry_pc = "open_geocoded"
  /\ pantry_saved' =
       [pantry_saved EXCEPT ![pantry_count].geocoded_file =
          [status |-> "truncated", records |-> <<>>]]
  /\ pantry_pc' = "dump_geocoded"
  /\ UNCHANGED <<pantry_total, pantry_batch_size, pantry_geocoded, pantry_failed,
                 pantry_i, pantry_count, batchVars, resolverVars, mergeVars>>

\* save_progress, line 161
PantryDumpGeocoded ==
  /\ pantry_pc = "dump_geocoded"
  /\ pantry_saved' =
       [pantry_saved EXCEPT ![pantry_count].geocoded_file =
          [status |-> "complete", records |-> pantry_geocoded]]
  /\ pantry_pc' = "open_failed"
  /\ UNCHANGED <<pantry_total, pantry_batch_size, pantry_geocoded, pantry_failed,
                 pantry_i, pantry_count, batchVars, resolverVars, mergeVars>>

\* save_progress, line 165
PantryOpenFailed ==
  /\ pantry_pc = "open_failed"
  /\ pantry_saved' =
       [pantry_saved EXCEPT ![pantry_count].failed_file =
          [status |-> "truncated", records |-> <<>>]]
  /\ pantry_pc' = "dump_failed"
  /\ UNCHANGED <<pantry_total, pantry_batch_size, pantry_geocoded, pantry_failed,
                 pantry_i, pantry_count, batchVars, resolverVars, mergeVars>>

\* save_progress, line 166, and the return: to the sleep of the loop, or
\* from the final save of main
PantryDumpFailed ==
  /\ pantry_pc = "dump_failed"
  /\ pantry_saved' =
       [pantry_saved EXCEPT ![pantry_count].failed_file =
          [status |-> "complete", records |-> pantry_failed]]
  /\ pantry_pc' = IF pantry_i > pantry_total THEN "done" ELSE "sleep"
  /\ UNCHANGED <<pantry_total, pantry_batch_size, pantry_geocoded, pantry_failed,
                 pantry_i, pantry_count, batchVars, resolverVars, mergeVars>>

\* line 145, then the next location or the return to main
PantrySleep ==
  /\ pantry_pc = "sleep"
  /\ pantry_i' = pantry_i + 1
  /\ pantry_pc' = IF pantry_i + 1 > pantry_total THEN "final" ELSE "loop"
  /\ UNCHANGED <<pantry_total, pantry_batch_size, pantry_geocoded, pantry_failed,
                 pantry_count, pantry_saved, batchVars, resolverVars, mergeVars>>

\* main, line 221: save_progress(geocoded, failed, len(locations))
PantryFinalSave ==
  /\ pantry_pc = "final"
  /\ pantry_count' = pantry_total
  /\ pantry_pc' = "open_geocoded"
  /\ UNCHANGED <<pantry_total, pantry_batch_size, pantry_geocoded, pantry_failed,
                 pantry_i, pantry_saved, batchVars, resolverVars, mergeVars>>

InSaveProgress ==
  pantry_pc \in {"open_geocoded", "dump_geocoded", "open_failed", "dump_failed"}

\* The operator stops the run (Ctrl-C, no handler): the process ends where
\* it is.  geocoded and failed stay as the process held them at that moment.
PantryStop ==
  /\ pantry_pc \notin {"done", "stopped", "stopped_saving", "key_error"}
  /\ pantry_pc' = IF InSaveProgress THEN "stopped_saving" ELSE "stopped"
  /\ UNCHANGED <<pantry_total, pantry_batch_size, pantry_geocoded, pantry_failed,
                 pantry_i, pantry_count, pantry_saved, batchVars, resolverVars,
                 mergeVars>>

NextPantry ==
  \/ PantryKeyError
  \/ PantryItem \/ PantryOpenGeocoded \/ PantryDumpGeocoded \/ PantryOpenFailed
  \/ PantryDumpFailed \/ PantrySleep \/ PantryFinalSave \/ PantryStop

SpecPantry == InitPantry /\ [][NextPantry]_vars

\* ------------------------------ definitions used by the pantry properties
\* The locations whose result the process holds.
Held == Len(pantry_geocoded) + Len(pantry_failed)

\* The locations whose result is in the files of count n.
InFiles(n) ==
  Range(pantry_saved[n].geocoded_file.records)
    \cup {e.name : e \in Range(pantry_saved[n].failed_file.records)}

\* Both files of count n are written to the end and hold the results of
\* the first n locations.
StoredUpTo(n) ==
  /\ pantry_saved[n].geocoded_file.status = "complete"
  /\ pantry_saved[n].failed_file.status = "complete"
  /\ InFiles(n) = 1..n

Max(S) == CHOOSE x \in S : \A y \in S : x >= y
\* The most locations a saved pair of files holds the results of.
Best == Max({0} \cup {n \in 1..MaxPantries : StoredUpTo(n)})
\* The results that are in no saved pair of files.
Lost == Held - Best
LastMultiple == (Held \div pantry_batch_size) * pantry_batch_size
Stopped == pantry_pc \in {"stopped", "stopped_saving"}

MalformedRecordsSkipped == pantry_pc # "key_error"

Runs(name) == ops' = ops + 1 /\ op'.name = name

\* C29 (merge_all_data is idempotent over unchanged sources): run again on
\* the dataset it has just written, merge_all_data adds no record, counts
\* every source record with coordinates as a duplicate and leaves the
\* dataset as it was.
MergeIdempotent ==
  [][(Merged /\ Runs("merge_all_data")) =>
       /\ op'.result = "written"
       /\ op'.added = 0
       /\ op'.duplicates =
            Cardinality({k \in 1..Len(Incoming) : WithCoordinates(Incoming[k])})
       /\ all_locations' = all_locations]_vars

\* C30 (incremental pantry merge skips what is already merged): run again
\* right after itself, merge_pantries.merge_locations adds no pantry and
\* does not write all-locations.json.
PantryMergeIncremental ==
  [][(op.name = "merge_pantries" /\ op.result # "raised"
        /\ Runs("merge_pantries")) =>
       /\ op'.result = "unchanged"
       /\ op'.added = 0
       /\ all_locations' = all_locations]_vars
====
